---- MODULE Spec2Model ----
(***************************************************************************)
(* rdclipper: the clipboard monitor thread RDDownloader of                  *)
(* src/rdclipper/rddownload.py, the main thread that stops and joins it,    *)
(* and the collaborators it talks to (clipboard, remote debrid service,     *)
(* output file).                                                            *)
(***************************************************************************)
EXTENDS Integers, Sequences, FiniteSets, TLC

\* ------------------------------------------------------------------ bounds
\* how often the user replaces the clipboard content during a run
MaxPastes == 3
\* the same for the runs that are followed to their end under fair scheduling
MaxFairPastes == 2

\* ------------------------------------------------------- clipboard strings
MagnetA == "magnet:?xt=urn:btih:A&dn=one"
MagnetB == "magnet:?xt=urn:btih:B"
MagnetBad == "magnet:?dn=nohash"
HosterKnown == "https://known.example/f"
HosterUnknown == "https://other.example/f"
BadUrl == "http://[bad"

\* what a user can put on the clipboard
Pastes ==
  {MagnetA, MagnetB, MagnetBad, HosterKnown, HosterUnknown, BadUrl}

Hashes == {"A", "B"}

\* the hoster links the service reports for a finished torrent (info()["links"])
TorrentLinks(h) ==
  IF h = "A" THEN <<"https://known.example/a1", "https://known.example/a2">>
  ELSE <<"https://known.example/b1">>

\* every link that can be handed to unrestrict.link
HosterLinks ==
  {HosterKnown, "https://known.example/a1", "https://known.example/a2",
   "https://known.example/b1"}

\* the direct link the service answers for a hoster link (dl["download"])
Direct(uri) == <<"direct", uri>>

\* the newline character of the output text
NL == <<"\n">>

\* self.available_hosts, fetched once in __init__
available_hosts == {"known.example"}

\* urllib.parse.urlparse: scheme and netloc of a string; raises ValueError on
\* an unbalanced bracket in the netloc
urlparse(s) ==
  CASE s \in {MagnetA, MagnetB, MagnetBad}
         -> [ok |-> TRUE, scheme |-> "magnet", netloc |-> ""]
    [] s = HosterKnown -> [ok |-> TRUE, scheme |-> "https", netloc |-> "known.example"]
    [] s = HosterUnknown -> [ok |-> TRUE, scheme |-> "https", netloc |-> "other.example"]
    [] s = BadUrl -> [ok |-> FALSE, scheme |-> "", netloc |-> ""]
    [] OTHER -> [ok |-> TRUE, scheme |-> "", netloc |-> ""]

\* magnet_parser.magnet_decode(uri).info_hash; fails on a magnet without xt
magnet_decode(uri) ==
  CASE uri = MagnetA -> [ok |-> TRUE, info_hash |-> "A"]
    [] uri = MagnetB -> [ok |-> TRUE, info_hash |-> "B"]
    [] OTHER -> [ok |-> FALSE, info_hash |-> ""]

\* ------------------------------------------------------------- sequences
Range(s) == {s[i] : i \in 1..Len(s)}

RECURSIVE Join(_)
\* "\n".join(links): the links with a newline between neighbours
Join(links) ==
  IF Len(links) = 0 THEN <<>>
  ELSE IF Len(links) = 1 THEN <<links[1]>>
  ELSE <<links[1], NL>> \o Join(Tail(links))

RECURSIVE SplitLines(_, _)
\* the newline-terminated lines of a text; cur is the line being read
SplitLines(text, cur) ==
  IF Len(text) = 0 THEN (IF Len(cur) = 0 THEN <<>> ELSE <<[line |-> cur, closed |-> FALSE]>>)
  ELSE IF text[1] = NL
       THEN <<[line |-> cur, closed |-> TRUE]>> \o SplitLines(Tail(text), <<>>)
       ELSE SplitLines(Tail(text), Append(cur, text[1]))

\* --------------------------------------------------------------- state
VARIABLES
  pc,               \* where the worker thread is in run()
  raised,           \* the exception that ended the worker thread, or "none"
  pcMain,           \* where main() is
  stop_event,       \* threading.Event shared by main and the worker
  clipboard,        \* the system clipboard (clipman)
  pastes,           \* clipboard changes made by the user so far
  last_clipboard,   \* self.last_clipboard
  added_torrents,   \* self.added_torrents, a list of torrent ids
  collected_links,  \* self.collected_links
  output,           \* the text appended to the output file
  remote,           \* the service's torrent list: records [id, hash, status]
  idUri,            \* the magnet of every torrent id issued to this worker
  calls,            \* the remote calls of the worker's latest step, in order
  caught,           \* the exception the worker's latest step logged, or "none"
  everCollected,    \* every link ever appended to collected_links, in order
  seenDownloaded,   \* torrent ids a poll has seen with status "downloaded"
  passed,           \* <<torrent id, link>> handed to unrestrict.link by a poll
  cyclesSinceStop   \* passes through the try block begun with stop_event set

vars ==
  <<pc, raised, pcMain, stop_event, clipboard, pastes, last_clipboard,
    added_torrents, collected_links, output, remote, idUri, calls, caught,
    everCollected, seenDownloaded, passed, cyclesSinceStop>>

Running == pc \in {"check", "cycle", "sleep"}
Stopping == pc \in {"poll", "flush"}
Stopped == pc = "stopped"

\* torrents that other clients of the account have put on the service
OtherTorrents ==
  {[id |-> "o1", hash |-> "A", status |-> "downloading"]}

\* __init__ has run and main has started the thread
Init ==
  /\ pc = "check"
  /\ raised = "none"
  /\ pcMain = "waiting"
  /\ stop_event = FALSE
  /\ clipboard = ""
  /\ pastes = 0
  /\ last_clipboard = ""
  /\ added_torrents = <<>>
  /\ collected_links = <<>>
  /\ output = <<>>
  /\ remote \in SUBSET OtherTorrents
  /\ idUri = <<>>
  /\ calls = <<>>
  /\ caught = "none"
  /\ everCollected = <<>>
  /\ seenDownloaded = {}
  /\ passed = <<>>
  /\ cyclesSinceStop = 0

\* ------------------------------------------------- the remote service
\* A cycle makes its calls one after the other and stops at the first that
\* fails, so what the clipboard and the service do to one cycle is the call
\* that fails, if any.
Faults == {"none", "clipman.get", "torrents.get", "torrents.add_magnet",
           "torrents.select_files"}
\* unrestrict.link: a reply with "download", a reply without it, or a failure
UnrOutcomes == {"download", "nofield", "raise"}

\* the opaque ids the service hands out, in the order it issues them
Ids == <<"t1", "t2", "t3", "t4", "t5", "t6", "t7", "t8">>
NextId == Ids[Len(idUri) + 1]
\* the magnet an issued torrent id was added with, and its info hash
UriOf(id) == idUri[CHOOSE n \in 1..Len(idUri) : Ids[n] = id]
HashOf(id) == magnet_decode(UriOf(id)).info_hash

Call(op, arg) == <<op, arg>>

\* ------------------------------------------------- RDDownloader methods
\* A method's result: the exception it raised ("none" if it returned) and the
\* state it left behind.
Result(exc, added, links, rem, ids, cs) ==
  [exc |-> exc, added |-> added, links |-> links, remote |-> rem,
   idUri |-> ids, calls |-> cs]

\* a conversion that buffers the hoster link instead of the direct link
handle_hoster_link_raw(uri, links, resp) ==
  LET cs == <<Call("unrestrict.link", uri)>> IN
  CASE resp = "raise" -> [exc |-> "RemoteError", links |-> links, calls |-> cs]
    [] resp = "download" ->
         [exc |-> "none", links |-> Append(links, <<"hoster", uri>>), calls |-> cs]
    [] OTHER -> [exc |-> "none", links |-> links, calls |-> cs]

\* handle_hoster_link(uri) on buffer links, the service answering resp
handle_hoster_link(uri, links, resp) ==
  LET cs == <<Call("unrestrict.link", uri)>> IN
  CASE resp = "raise" -> [exc |-> "RemoteError", links |-> links, calls |-> cs]
    [] resp = "download" ->
         [exc |-> "none", links |-> Append(links, Direct(uri)), calls |-> cs]
    [] OTHER -> [exc |-> "none", links |-> links, calls |-> cs]

\* a duplicate check that looks at the tracked torrents only
QueuedLocally(info_hash) ==
  \E n \in 1..Len(idUri) :
    Ids[n] \in Range(added_torrents) /\ magnet_decode(idUri[n]).info_hash = info_hash

\* torrent_already_queued(info_hash), given the answer of torrents.get()
torrent_already_queued(info_hash) ==
  \E t \in remote : t.hash = info_hash

\* a decode failure that is swallowed: the method just returns
DecodeSwallowed(uri) ==
  Result("none", added_torrents, collected_links, remote, idUri, <<>>)

\* magnet_decode(uri) raising in handle_torrent_link: nothing else has run
DecodeFailure(uri) ==
  Result("DecodeError", added_torrents, collected_links, remote, idUri, <<>>)

\* handle_torrent_link(uri), the call named by fault failing
handle_torrent_link(uri, fault) ==
  LET m == magnet_decode(uri)
      id == NextId
      added == [id |-> id, hash |-> m.info_hash, status |-> "downloading"]
      getC == <<Call("torrents.get", "")>>
      addC == Append(getC, Call("torrents.add_magnet", uri))
      selC == Append(addC, Call("torrents.select_files", id))
  IN
  IF ~m.ok
  THEN DecodeFailure(uri)
  ELSE IF fault = "torrents.get"
  THEN Result("RemoteError", added_torrents, collected_links, remote, idUri, getC)
  ELSE IF torrent_already_queued(m.info_hash)
  THEN Result("none", added_torrents, collected_links, remote, idUri, getC)
  ELSE IF fault = "torrents.add_magnet"
  THEN Result("RemoteError", added_torrents, collected_links, remote, idUri, addC)
  ELSE IF fault = "torrents.select_files"
  THEN Result("RemoteError", added_torrents, collected_links,
              remote \cup {added}, Append(idUri, uri), selC)
  ELSE Result("none", Append(added_torrents, id), collected_links,
              remote \cup {added}, Append(idUri, uri), selC)

\* parse_clipboard(clipboard_content)
parse_clipboard(content, fault, resp) ==
  LET u == urlparse(content) IN
  IF ~u.ok
  THEN Result("ValueError", added_torrents, collected_links, remote, idUri, <<>>)
  ELSE IF u.scheme = "magnet"
  THEN handle_torrent_link(content, fault)
  ELSE IF u.scheme \in {"http", "https"} /\ u.netloc \in available_hosts
  THEN LET h == handle_hoster_link(content, collected_links, resp) IN
       Result(h.exc, added_torrents, h.links, remote, idUri, h.calls)
  ELSE Result("none", added_torrents, collected_links, remote, idUri, <<>>)

\* a comparison that takes every read for a change
ChangedAlways(cur, last) == TRUE

\* current_clipboard != self.last_clipboard
Changed(cur, last) == cur # last

\* the last observed value set only when the routing succeeded
ObservedOnSuccess(cur, exc) == IF exc = "none" THEN cur ELSE last_clipboard

\* self.last_clipboard = current_clipboard, before parse_clipboard runs:
\* whatever parse_clipboard raises (exc), the new value is the one observed
Observed(cur, exc) == cur

\* the body of the try block of run(): read the clipboard, act on a change
TryBody(fault, resp) ==
  IF fault = "clipman.get"
  THEN [last |-> last_clipboard,
        r |-> Result("ClipboardError", added_torrents, collected_links, remote,
                     idUri, <<>>)]
  ELSE IF Changed(clipboard, last_clipboard)
  THEN LET r == parse_clipboard(clipboard, fault, resp) IN
       [last |-> Observed(clipboard, r.exc), r |-> r]
  ELSE [last |-> last_clipboard,
        r |-> Result("none", added_torrents, collected_links, remote, idUri, <<>>)]

\* where run() goes after the try block: "except Exception" catches exc
AfterTry(exc) == "sleep"

\* an except clause that lets decode errors through
EscapesDecode(exc) == IF exc = "DecodeError" THEN exc ELSE "none"

\* the exception that leaves the try statement of run()
Escapes(exc) == "none"

\* the links of new that old did not hold yet (new extends old)
Suffix(old, new) == SubSeq(new, Len(old) + 1, Len(new))

\* a loop condition that never looks at the stop signal
LoopAlways == TRUE

\* the condition of the while loop of run()
LoopCondition == ~stop_event

\* while not self.stop_event.is_set()
Check ==
  /\ pc = "check"
  /\ pc' = IF LoopCondition THEN "cycle" ELSE "poll"
  /\ calls' = <<>>
  /\ caught' = "none"
  /\ UNCHANGED <<raised, pcMain, stop_event, clipboard, pastes, last_clipboard,
                 added_torrents, collected_links, output, remote, idUri,
                 everCollected, seenDownloaded, passed,
                 cyclesSinceStop>>

\* one pass through the try/except of run()
Cycle ==
  /\ pc = "cycle"
  /\ \E fault \in Faults, resp \in UnrOutcomes :
       LET b == TryBody(fault, resp)
           r == b.r
       IN
       /\ last_clipboard' = b.last
       /\ added_torrents' = r.added
       /\ collected_links' = r.links
       /\ everCollected' = everCollected \o Suffix(collected_links, r.links)
       /\ remote' = r.remote
       /\ idUri' = r.idUri
       /\ calls' = r.calls
       /\ caught' = IF Escapes(r.exc) = "none" THEN r.exc ELSE "none"
       /\ raised' = Escapes(r.exc)
       /\ pc' = IF Escapes(r.exc) = "none" THEN AfterTry(r.exc) ELSE "stopped"
  /\ cyclesSinceStop' =
       IF stop_event /\ cyclesSinceStop < 2 THEN cyclesSinceStop + 1
       ELSE cyclesSinceStop
  /\ UNCHANGED <<pcMain, stop_event, clipboard, pastes, output, seenDownloaded,
                 passed>>

\* time.sleep(self.poll_interval)
Sleep ==
  /\ pc = "sleep"
  /\ pc' = "check"
  /\ UNCHANGED <<raised, pcMain, stop_event, clipboard, pastes, last_clipboard,
                 added_torrents, collected_links, output, remote, idUri, calls,
                 caught, everCollected, seenDownloaded, passed,
                 cyclesSinceStop>>

\* ------------------------------------------------- update_torrent_state
\* torrents.info(id).json(): fails when the call fails or the answer has no
\* "status" (the service no longer knows the id)
Info(id, infoOk) ==
  IF infoOk[id] /\ \E t \in remote : t.id = id
  THEN LET t == CHOOSE x \in remote : x.id = id IN
       [ok |-> TRUE, status |-> t.status, links |-> TorrentLinks(t.hash)]
  ELSE [ok |-> FALSE, status |-> "", links |-> <<>>]

RECURSIVE ConvertAll(_, _, _)
\* for link in torrent_info["links"]: self.handle_hoster_link(link)
ConvertAll(ls, links, unr) ==
  IF Len(ls) = 0 THEN [exc |-> "none", links |-> links, calls |-> <<>>]
  ELSE LET h == handle_hoster_link(ls[1], links, unr[ls[1]]) IN
       IF h.exc # "none" THEN h
       ELSE LET rest == ConvertAll(Tail(ls), h.links, unr) IN
            [exc |-> rest.exc, links |-> rest.links, calls |-> h.calls \o rest.calls]

\* a status test that takes every answer for a finished torrent
StatusAny(status) == TRUE

\* torrent_info["status"] == "downloaded"
StatusFinished(status) == status = "downloaded"

\* is_finished(torrent_id) on buffer links; finished says that the status read
\* was "downloaded", also when a conversion then raised (exc) and nothing was
\* returned
is_finished(id, links, infoOk, unr) ==
  LET i == Info(id, infoOk)
      ic == <<Call("torrents.info", id)>>
  IN
  IF ~i.ok
  THEN [exc |-> "RemoteError", finished |-> FALSE, links |-> links, calls |-> ic]
  ELSE IF StatusFinished(i.status)
  THEN LET c == ConvertAll(i.links, links, unr) IN
       [exc |-> c.exc, finished |-> TRUE, links |-> c.links, calls |-> ic \o c.calls]
  ELSE [exc |-> "none", finished |-> FALSE, links |-> links, calls |-> ic]

RECURSIVE Scan(_, _, _, _)
\* [t for t in ts if not is_finished(t)]: the list built so far is lost when
\* is_finished raises
Scan(ts, links, infoOk, unr) ==
  IF Len(ts) = 0
  THEN [exc |-> "none", kept |-> <<>>, links |-> links, calls |-> <<>>, seen |-> {}]
  ELSE LET f == is_finished(ts[1], links, infoOk, unr)
           saw == IF f.finished THEN {ts[1]} ELSE {}
       IN
       IF f.exc # "none"
       THEN [exc |-> f.exc, kept |-> <<>>, links |-> f.links, calls |-> f.calls,
             seen |-> saw]
       ELSE LET rest == Scan(Tail(ts), f.links, infoOk, unr) IN
            [exc |-> rest.exc,
             kept |-> IF f.finished THEN rest.kept ELSE <<ts[1]>> \o rest.kept,
             links |-> rest.links,
             calls |-> f.calls \o rest.calls,
             seen |-> saw \cup rest.seen]

\* a scan that drops torrents from the list as it goes
AssignedPartial(s) == s.kept

\* self.added_torrents = [...]: the assignment runs only when the scan of s
\* has ended without raising
Assigned(s) == IF s.exc = "none" THEN s.kept ELSE added_torrents

\* update_torrent_state(): added_torrents is assigned only when the scan ends
update_torrent_state(infoOk, unr) ==
  LET s == Scan(added_torrents, collected_links, infoOk, unr) IN
  [exc |-> s.exc,
   added |-> Assigned(s),
   links |-> s.links, calls |-> s.calls, seen |-> s.seen]

RECURSIVE PassedBy(_, _)
\* the <<torrent, link>> pairs among the calls of a poll
PassedBy(cs, cur) ==
  IF Len(cs) = 0 THEN <<>>
  ELSE IF cs[1][1] = "torrents.info" THEN PassedBy(Tail(cs), cs[1][2])
  ELSE <<<<cur, cs[1][2]>>>> \o PassedBy(Tail(cs), cur)

\* the links the service reports for the tracked torrents
PollLinks ==
  UNION {Range(TorrentLinks(t.hash)) : t \in {x \in remote : x.id \in Range(added_torrents)}}

\* the first half of update(), called once run() has left its loop
Poll ==
  /\ pc = "poll"
  /\ \E infoOk \in [Range(added_torrents) -> BOOLEAN],
        unr \in [PollLinks -> UnrOutcomes] :
       LET u == update_torrent_state(infoOk, unr) IN
       /\ added_torrents' = u.added
       /\ collected_links' = u.links
       /\ everCollected' = everCollected \o Suffix(collected_links, u.links)
       /\ calls' = u.calls
       /\ seenDownloaded' = seenDownloaded \cup u.seen
       /\ passed' = passed \o PassedBy(u.calls, "")
       /\ raised' = u.exc
       /\ pc' = IF u.exc = "none" THEN "flush" ELSE "stopped"
  /\ caught' = "none"
  /\ UNCHANGED <<pcMain, stop_event, clipboard, pastes, last_clipboard, output,
                 remote, idUri,
                 cyclesSinceStop>>

\* the write of a buffer, short of its closing newline
WrittenNoNewline(links) == Join(links)

\* what update() writes for a buffer
Written(links) == Join(links) \o <<NL>>

\* the buffer left as it is after the write
NotCleared(links) == links

\* self.collected_links = [] after the write
Cleared(links) == <<>>

\* the second half of update(): write out the buffer and clear it
Flush ==
  /\ pc = "flush"
  /\ IF Len(collected_links) >= 1
     THEN /\ output' = output \o Written(collected_links)
          /\ collected_links' = Cleared(collected_links)
     ELSE UNCHANGED <<output, collected_links>>
  /\ pc' = "stopped"
  /\ calls' = <<>>
  /\ UNCHANGED <<raised, pcMain, stop_event, clipboard, pastes, last_clipboard,
                 added_torrents, remote, idUri, caught, everCollected,
                 seenDownloaded, passed, cyclesSinceStop>>

\* ------------------------------------------------------------- main()
\* KeyboardInterrupt in main: stop_event.set(), then monitor.join()
Interrupt ==
  /\ pcMain = "waiting"
  /\ stop_event' = TRUE
  /\ pcMain' = "join"
  /\ UNCHANGED <<pc, raised, clipboard, pastes, last_clipboard, added_torrents,
                 collected_links, output, remote, idUri, calls, caught,
                 everCollected, seenDownloaded, passed,
                 cyclesSinceStop>>

\* monitor.join() returns once the worker thread has ended
Join_ ==
  /\ pcMain = "join"
  /\ pc = "stopped"
  /\ pcMain' = "done"
  /\ UNCHANGED <<pc, raised, stop_event, clipboard, pastes, last_clipboard,
                 added_torrents, collected_links, output, remote, idUri, calls,
                 caught, everCollected, seenDownloaded, passed,
                 cyclesSinceStop>>

\* ------------------------------------------------------ the environment
\* The clipboard and the service are followed while the worker thread lives;
\* nothing reads them afterwards.
\* the user copies something else
Paste ==
  /\ pc # "stopped"
  /\ pastes < MaxPastes
  /\ \E s \in Pastes \ {clipboard} : clipboard' = s
  /\ pastes' = pastes + 1
  /\ UNCHANGED <<pc, raised, pcMain, stop_event, last_clipboard, added_torrents,
                 collected_links, output, remote, idUri, calls, caught,
                 everCollected, seenDownloaded, passed,
                 cyclesSinceStop>>

\* the service finishes downloading a torrent
RemoteFinish ==
  /\ pc # "stopped"
  /\ \E t \in remote :
       /\ t.status = "downloading"
       /\ remote' = (remote \ {t}) \cup {[t EXCEPT !.status = "downloaded"]}
  /\ UNCHANGED <<pc, raised, pcMain, stop_event, clipboard, pastes, last_clipboard,
                 added_torrents, collected_links, output, idUri, calls, caught,
                 everCollected, seenDownloaded, passed,
                 cyclesSinceStop>>

\* a torrent leaves the service's list (deleted on the web site, expired)
RemoteRemove ==
  /\ pc # "stopped"
  /\ \E t \in remote : remote' = remote \ {t}
  /\ UNCHANGED <<pc, raised, pcMain, stop_event, clipboard, pastes, last_clipboard,
                 added_torrents, collected_links, output, idUri, calls, caught,
                 everCollected, seenDownloaded, passed,
                 cyclesSinceStop>>

Next ==
  \/ Check
  \/ Cycle
  \/ Sleep
  \/ Poll
  \/ Flush
  \/ Interrupt
  \/ Join_
  \/ Paste
  \/ RemoteFinish
  \/ RemoteRemove

Spec == Init /\ [][Next]_vars

\* ------------------------------------------------------------ properties
\* the output lines that a list of links amounts to, one closed line per link
LinesOf(links) == [i \in 1..Len(links) |-> [line |-> <<links[i]>>, closed |-> TRUE]]

\* the lines of the output file
OutputLines == SplitLines(output, <<>>)

RECURSIVE Terminated(_)
\* each link followed by a newline
Terminated(links) ==
  IF Len(links) = 0 THEN <<>> ELSE <<links[1], NL>> \o Terminated(Tail(links))

\* how often x occurs in the sequence s
Count(s, x) == Cardinality({i \in 1..Len(s) : s[i] = x})

\* the worker has just left update_torrent_state
AfterPoll == pc = "flush" \/ (pc = "stopped" /\ raised # "none")

\* C1: once the worker has stopped, the output holds every link that was ever
\* appended to collected_links and the buffer is empty, whatever the remote
\* calls of the final poll did.
C1_StoppedOutputComplete ==
  Stopped => (OutputLines = LinesOf(everCollected) /\ collected_links = <<>>)

\* C2: in every cycle of the running loop the poller has queried every
\* tracked torrent and the buffer has been flushed before the cycle's sleep.
C2_PollAndFlushEachCycle ==
  pc = "sleep" =>
    /\ collected_links = <<>>
    /\ \A t \in Range(added_torrents) : Call("torrents.info", t) \in Range(calls)

\* C3: a torrent that a poll saw as "downloaded" is untracked when that poll
\* is over, and each of its file links went to unrestrict.link exactly once.
C3_DownloadedUntrackedOnce ==
  AfterPoll =>
    \A t \in seenDownloaded :
      /\ t \notin Range(added_torrents)
      /\ \A l \in Range(TorrentLinks(HashOf(t))) : Count(passed, <<t, l>>) = 1

\* C4: a failing status query or link conversion for one torrent does not
\* escape the poll, and every tracked torrent is still queried in that poll.
C4_PollIsolatesFailures ==
  AfterPoll =>
    /\ raised = "none"
    /\ \A t \in Range(added_torrents) : Call("torrents.info", t) \in Range(calls)

\* the tracked torrents that carry info hash h
TrackedWith(h) == {t \in Range(added_torrents) : HashOf(t) = h}

\* the tracked torrents that were added with the magnet uri
TrackedFrom(uri) == {t \in Range(added_torrents) : UriOf(t) = uri}

\* the magnet the worker has just routed to handle_torrent_link
Submitting == pc = "cycle" /\ last_clipboard' # last_clipboard
              /\ urlparse(clipboard).ok /\ magnet_decode(clipboard).ok

\* C5: submitting a magnet URI that this worker has submitted before, and
\* whose torrent it tracks, makes no add_magnet and no select_files call and
\* leaves added_torrents unchanged: one tracked torrent, one add_magnet call.
C5_SecondSubmissionNoOp ==
  [][(Submitting /\ TrackedFrom(clipboard) # {}) =>
       /\ added_torrents' = added_torrents
       /\ \A c \in Range(calls') :
            c[1] \notin {"torrents.add_magnet", "torrents.select_files"}]_vars

\* C6: the tracking list never holds two torrents with the same info hash.
C6_OneTrackedPerHash ==
  \A h \in Hashes : Cardinality(TrackedWith(h)) <= 1

\* C7: a flush appends exactly the buffered links, in order, each followed by
\* a newline, and empties the buffer; with an empty buffer it writes nothing;
\* the output changes in no other way.
C7_FlushAllOrNothing ==
  [][/\ (pc = "flush" /\ pc' # "flush") =>
          /\ output' = output \o Terminated(collected_links)
          /\ collected_links' = <<>>
     /\ (output' # output) =>
          /\ pc = "flush"
          /\ collected_links # <<>>
          /\ collected_links' = <<>>]_vars

C7_Witness ==
  /\ pc = "stopped"
  /\ Len(everCollected) >= 2
  /\ output = Terminated(everCollected)

\* C8: the lines of the output followed by the buffered links are exactly the
\* links ever appended, in order: an appended link is a line of the output or
\* an entry of the buffer, never both and never twice.
C8_WrittenAtMostOnce ==
  OutputLines \o LinesOf(collected_links) = LinesOf(everCollected)

C8_Witness ==
  /\ pc = "stopped"
  /\ Len(OutputLines) >= 2
  /\ everCollected[1] = everCollected[2]

\* C9: with the stop signal set the worker passes through the try block at
\* most once more; seeing the flag it leaves the loop, and having left the
\* loop it never runs a cycle again.
C9_AtMostOneMoreCycle ==
  /\ [](cyclesSinceStop <= 1)
  /\ [][/\ (pc = "check" /\ stop_event) => pc' \in {"check", "poll"}
        /\ ~Running => ~Running'
        /\ Stopped => Stopped'
        /\ Stopping' => (Stopping \/ pc = "check")]_vars

C9_Witness ==
  /\ pc = "stopped"
  /\ cyclesSinceStop = 1

\* C10: whatever is raised while the clipboard is read or the new value is
\* routed is caught in that cycle: the worker goes on to its sleep, and from
\* there to the next loop check and, with the flag unset, the next cycle.
C10_CycleErrorsCaught ==
  [][/\ pc = "cycle" => (pc' \in {"cycle", "sleep"} /\ raised' = "none")
     /\ pc = "sleep" => pc' \in {"sleep", "check"}
     /\ (pc = "check" /\ ~stop_event) => pc' \in {"check", "cycle"}]_vars

\* the decode error of the previous cycle was caught and the next cycle runs
C10_Witness ==
  /\ pc = "cycle"
  /\ last_clipboard = MagnetBad

\* the worker's pass through the try block has just routed the clipboard
Routing == pc = "cycle" /\ last_clipboard' # last_clipboard

\* C11: a pass through the try block that reads the value last observed
\* routes nothing: no remote call, last_clipboard and all tracked and
\* buffered state as before; a magnet read on two cycles in a row is
\* submitted by the first alone.
C11_UnchangedSkipsRouting ==
  [][(pc = "cycle" /\ pc' # "cycle" /\ clipboard = last_clipboard) =>
       /\ calls' = <<>>
       /\ last_clipboard' = last_clipboard
       /\ added_torrents' = added_torrents
       /\ collected_links' = collected_links
       /\ remote' = remote
       /\ idUri' = idUri]_vars

\* the magnet was submitted by an earlier cycle and the latest cycle read it
\* again without a call
C11_Witness ==
  /\ pc = "sleep"
  /\ clipboard = MagnetA
  /\ last_clipboard = MagnetA
  /\ idUri = <<MagnetA>>
  /\ added_torrents = <<"t1">>
  /\ calls = <<>>
  /\ caught = "none"

\* C12: a magnet whose info hash is in the service's list and not in local
\* tracking is a duplicate: no add_magnet, no select_files, added_torrents
\* and collected_links as before.
C12_RemoteDuplicateIgnored ==
  [][(/\ Submitting
      /\ \E t \in remote : t.hash = magnet_decode(clipboard).info_hash
      /\ TrackedWith(magnet_decode(clipboard).info_hash) = {}) =>
       /\ added_torrents' = added_torrents
       /\ collected_links' = collected_links
       /\ remote' = remote
       /\ \A c \in Range(calls') :
            c[1] \notin {"torrents.add_magnet", "torrents.select_files"}]_vars

\* the magnet of a torrent another client added was read, the list was
\* fetched, and nothing was submitted
C12_Witness ==
  /\ pc = "sleep"
  /\ last_clipboard = MagnetA
  /\ remote # {}
  /\ idUri = <<>>
  /\ added_torrents = <<>>
  /\ calls = <<Call("torrents.get", "")>>
  /\ caught = "none"

\* the unrestrict.link calls among cs
UnrestrictCalls(cs) == SelectSeq(cs, LAMBDA c : c[1] = "unrestrict.link")

\* C13: a conversion makes exactly one unrestrict.link call; an answer with
\* "download" puts exactly that value at the end of the buffer; an answer
\* without it leaves the buffer alone and raises nothing. This holds for a
\* pasted hoster link and for the file links of a finished torrent.
C13_ConvertOneCall ==
  /\ [](\A uri \in HosterLinks, resp \in UnrOutcomes :
          LET h == handle_hoster_link(uri, collected_links, resp) IN
          /\ h.calls = <<Call("unrestrict.link", uri)>>
          /\ resp = "download" =>
               (h.links = Append(collected_links, Direct(uri)) /\ h.exc = "none")
          /\ resp = "nofield" => (h.links = collected_links /\ h.exc = "none"))
  /\ [][/\ (Routing /\ clipboard = HosterKnown) =>
             /\ calls' = <<Call("unrestrict.link", clipboard)>>
             /\ \/ /\ collected_links' = Append(collected_links, Direct(clipboard))
                   /\ caught' = "none"
                \/ collected_links' = collected_links
        /\ (pc = "poll" /\ pc' # "poll") =>
             LET new == Suffix(collected_links, collected_links')
                 unr == UnrestrictCalls(calls')
             IN
             /\ SubSeq(collected_links', 1, Len(collected_links)) = collected_links
             /\ Len(new) <= Len(unr)
             /\ \A i \in 1..Len(new) :
                  \E j \in 1..Len(unr) : new[i] = Direct(unr[j][2])]_vars

\* a pasted hoster link was converted with one call
C13_Witness ==
  /\ pc = "sleep"
  /\ calls = <<Call("unrestrict.link", HosterKnown)>>
  /\ collected_links = <<Direct(HosterKnown)>>

\* the class of a clipboard string: magnet scheme, http(s) with a known host,
\* or ignored, which takes in the strings that do not parse
Classify(s) ==
  LET u == urlparse(s) IN
  IF ~u.ok THEN "Ignored"
  ELSE IF u.scheme = "magnet" THEN "Magnet"
  ELSE IF u.scheme \in {"http", "https"} /\ u.netloc \in available_hosts THEN "Hoster"
  ELSE "Ignored"

\* C14: a magnet goes to the submission path and an http(s) link of a known
\* host to unrestrict.link; every other string, malformed ones included, is
\* ignored: no remote call, tracked and buffered state as before, no error.
C14_IgnoredIsSilent ==
  [][Routing =>
       /\ Classify(clipboard) = "Magnet" =>
            \A c \in Range(calls') : c[1] # "unrestrict.link"
       /\ Classify(clipboard) = "Hoster" =>
            calls' = <<Call("unrestrict.link", clipboard)>>
       /\ Classify(clipboard) = "Ignored" =>
            /\ calls' = <<>>
            /\ added_torrents' = added_torrents
            /\ collected_links' = collected_links
            /\ remote' = remote
            /\ caught' = "none"]_vars

\* C15: a magnet that does not decode aborts that submission alone: no remote
\* call, added_torrents and collected_links as before, and the decode error
\* reaches the handler of the loop, which goes on.
C15_DecodeErrorAbortsSubmission ==
  [][(/\ Routing
      /\ urlparse(clipboard).ok
      /\ urlparse(clipboard).scheme = "magnet"
      /\ ~magnet_decode(clipboard).ok) =>
       /\ calls' = <<>>
       /\ added_torrents' = added_torrents
       /\ collected_links' = collected_links
       /\ remote' = remote
       /\ idUri' = idUri
       /\ caught' = "DecodeError"
       /\ pc' = "sleep"]_vars

C15_Witness ==
  /\ pc = "sleep"
  /\ last_clipboard = MagnetBad
  /\ caught = "DecodeError"

\* C16: a cycle that attempts a submission or conversion (it makes a remote
\* call, or its routing raises) has read a value other than the last observed
\* one and leaves that value as the last observed one, also when the attempt
\* fails: nothing is attempted again while the clipboard keeps its content.
C16_NoRetryWhileUnchanged ==
  [][(/\ pc = "cycle"
      /\ pc' # "cycle"
      /\ (calls' # <<>> \/ caught' \notin {"none", "ClipboardError"})) =>
       /\ last_clipboard # clipboard
       /\ last_clipboard' = clipboard]_vars

\* the submission of the magnet failed, the magnet is still on the clipboard,
\* and the cycle after it made no call
C16_Witness ==
  /\ pc = "sleep"
  /\ clipboard = MagnetB
  /\ last_clipboard = MagnetB
  /\ idUri = <<>>
  /\ calls = <<>>
  /\ caught = "none"

\* the service reports torrent t as downloaded
Downloaded(t) == \E x \in remote : x.id = t /\ x.status = "downloaded"

\* the torrents of a tracking list that the service does not report as
\* downloaded, in the order of the list
Unfinished(ts) == SelectSeq(ts, LAMBDA t : ~Downloaded(t))

\* C17: a poll leaves every torrent whose status is not "downloaded" in the
\* tracking list, in its original relative order, and hands none of its
\* links to unrestrict.link; only torrents seen as "downloaded" leave.
C17_PollKeepsUnfinished ==
  [][(pc = "poll" /\ pc' # "poll") =>
       /\ Unfinished(added_torrents') = Unfinished(added_torrents)
       /\ Range(added_torrents') \subseteq Range(added_torrents)
       /\ \A t \in Range(added_torrents) \ Range(added_torrents') : Downloaded(t)
       /\ \A i \in (Len(passed) + 1)..Len(passed') : Downloaded(passed'[i][1])]_vars

\* a poll has removed the finished first torrent and kept the second
C17_Witness ==
  /\ pc = "flush"
  /\ seenDownloaded = {"t1"}
  /\ added_torrents = <<"t2">>

\* the steps of the program with the clipboard changing at most
\* MaxFairPastes times
FairNext == Next /\ pastes' <= MaxFairPastes

\* The worker thread and the join of main are scheduled, and every blocking
\* call of theirs returns.
FairSpec ==
  /\ Init
  /\ [][FairNext]_vars
  /\ WF_vars(Check)
  /\ WF_vars(Cycle)
  /\ WF_vars(Sleep)
  /\ WF_vars(Poll)
  /\ WF_vars(Flush)
  /\ WF_vars(Join_)

\* C18: once main has set the stop signal the worker reaches Stopped and the
\* join of main returns; main changes nothing but the flag and its own place,
\* and the flag stays set.
C18_StopLeadsToJoin ==
  /\ stop_event ~> (Stopped /\ pcMain = "done")
  /\ [][/\ (pcMain' # pcMain \/ stop_event' # stop_event) =>
             UNCHANGED <<pc, raised, last_clipboard, added_torrents,
                         collected_links, output, calls, caught>>
        /\ stop_event => stop_event']_vars

C18_Witness ==
  /\ Stopped
  /\ stop_event
  /\ pcMain = "done"
  /\ output # <<>>

\* the torrent ids a successful add_magnet call of this worker has returned
Issued == {Ids[n] : n \in 1..Len(idUri)}

\* C19: every torrent id a successful add_magnet call returned is in
\* added_torrents from the end of its submission until a poll sees it as
\* "downloaded", also when the select_files call that follows fails.
C19_IssuedIsTracked ==
  \A t \in Issued : t \in Range(added_torrents) \/ t \in seenDownloaded

\* C20: a poll that raises partway through its scan leaves added_torrents
\* exactly as it was before the poll started.
C20_FailedPollKeepsList ==
  [][(pc = "poll" /\ raised' # "none") => added_torrents' = added_torrents]_vars

\* the poll saw the first torrent as downloaded and raised after that, and
\* both torrents are still tracked
C20_Witness ==
  /\ pc = "stopped"
  /\ raised # "none"
  /\ seenDownloaded = {"t1"}
  /\ added_torrents = <<"t1", "t2">>
  /\ calls[Len(calls)] = Call("torrents.info", "t2")

====
